---- MODULE Spec2Model ----
(***************************************************************************)
(* The metadata-leader subsystem of engula: src/server/src/root/mod.rs.    *)
(*                                                                         *)
(* Root::run is the long-lived driver task (fetch_root_replica, on_leader, *)
(* step_leader); every Root API method runs as its own task and is cut     *)
(* into one step per .await.  Schema (schema.rs) and WatchHub (watch.rs)   *)
(* are used through their call sites in mod.rs; their own behaviour is     *)
(* taken from the design document.                                         *)
(***************************************************************************)
EXTENDS Integers, Sequences, FiniteSets, TLC

\* ------------------------------------------------------------------ bounds
\* Iterations of the heartbeat loop `for _ in 0..1000` (mod.rs:168), scaled.
HeartbeatIters == 1
\* API calls over a behaviour; each runs as a handler task of its own.
NumHandlers == 2
\* Length of the `updates` argument of report().
MaxUpdates == 2
\* create_watcher and notify calls of the stand-alone hub scenario (root_test).
MaxHubOps == 4

Handlers == 1..NumHandlers
\* Database names, collection names, group ids, replica-state values.
DbNames == {"db1"}
CoNames == {"c1"}
GroupIds == {1}
StateVals == {1}

VARIABLES
    \* RootShared.core: Mutex<Option<RootCore>>, and the task holding the mutex
    core, lock,
    \* Root::run / Root::step_leader; bootstrap_tried: try_bootstrap has been
    \* invoked by this process
    dpc, bootstrapped, hb, step_result, bootstrap_tried,
    \* the replicated metadata behind Schema
    databases, collections, nodes, group_desc, group_state, next_id, commits,
    \* the API handler tasks
    hpc, hargs, hlocal, hresult,
    \* WatchHub
    watchers, published

driver_vars == <<dpc, bootstrapped, hb, step_result, bootstrap_tried>>
schema_vars == <<databases, collections, nodes, group_desc, group_state, next_id, commits>>
handler_vars == <<hpc, hargs, hlocal, hresult>>
hub_vars == <<watchers, published>>
vars == <<core, lock, driver_vars, schema_vars, handler_vars, hub_vars>>

\* ------------------------------------------------------------------ Root
\* The holder of the mutex over core: no task, the driver task (Root::run), or
\* the task of API handler h.
Free == <<>>
DriverTask == <<"driver">>
HandlerTask(h) == <<"handler", h>>

\* A MutexGuard that outlives its scope: the task still holds the mutex over
\* core at its next .await.
LockKeptAtAwait(task) == task

\* Who holds the mutex over core once `task`, having locked it, is at its next
\* .await: the guard is a local of the blocks of step_leader and of the body of
\* schema(), none of which holds an .await, and is dropped where they end.
LockAtAwait(task) == Free

\* The arguments of an API call, before the handler task is given one.
NoArgs == [op |-> "none", name |-> 0, database |-> 0, cur_groups |-> {}, updates |-> <<>>]
\* The locals of a handler task.  absent: a Schema call of this task found the
\* named database or collection not stored; muts: the numbers (in commit
\* order) of the mutations this task committed; pubs: the numbers (in
\* `published`) of the batches it handed to the hub; state_changed: the group
\* ids whose stored replica_state an update of this task replaced by another.
NoSnapshot == [version |-> -1, dbs |-> {}, colls |-> {}, nodes |-> {}, groups |-> {}]
NoLocal == [db |-> 0, coll |-> 0, id |-> 0, remaining |-> <<>>, update_events |-> <<>>,
            changed_group_states |-> <<>>, watcher |-> 0, snapshot |-> NoSnapshot,
            absent |-> FALSE, muts |-> {}, pubs |-> {}, state_changed |-> {}]

\* What the replicated store may hold when this process starts: nothing yet,
\* or the database and collection an earlier leader created.
EmptyStore == [databases |-> {}, collections |-> {}, next_id |-> 1]

InitialStores ==
    {EmptyStore,
     [databases |-> {[id |-> 1, name |-> "db1"]}, collections |-> {}, next_id |-> 2],
     [databases |-> {[id |-> 1, name |-> "db1"]},
      collections |-> {[id |-> 2, name |-> "c1", parent_id |-> 1]}, next_id |-> 3]}

\* Root::new: core is None, the mutex free, the hub empty; the store holds one
\* of `stores`, and `tasks` are the handler tasks the front-end will run.
InitFor(tasks, stores) ==
    /\ core = "None"
    /\ lock = Free
    /\ dpc = "fetch_root_replica"
    /\ bootstrapped = FALSE
    /\ bootstrap_tried = FALSE
    /\ hb = 0
    /\ step_result = "none"
    /\ \E store \in stores :
         /\ databases = store.databases
         /\ collections = store.collections
         /\ next_id = store.next_id
    /\ nodes = {}
    /\ group_desc = [g \in GroupIds |-> 0]
    /\ group_state = [g \in GroupIds |-> 0]
    /\ commits = 0
    /\ hpc = [h \in tasks |-> "idle"]
    /\ hargs = [h \in tasks |-> NoArgs]
    /\ hlocal = [h \in tasks |-> NoLocal]
    /\ hresult = [h \in tasks |-> "none"]
    /\ watchers = <<>>
    /\ published = <<>>

InitWith(stores) == InitFor(Handlers, stores)

\* Root::new on a cluster that holds no metadata yet.
Init == InitWith({EmptyStore})

\* Root::new on a cluster that may hold metadata already.
InitStored == InitWith(InitialStores)

\* Root::is_root
is_root == core # "None"

\* ---------------------------------------------------------------- driver
\* Root::fetch_root_replica: Pending until current_root_replica is Some; the
\* step is taken when the routing table reports the root replica.
fetch_root_replica ==
    /\ dpc = "fetch_root_replica"
    /\ dpc' = "on_leader"
    /\ step_result' = "none"
    /\ UNCHANGED <<core, lock, bootstrapped, bootstrap_tried, hb, schema_vars, handler_vars, hub_vars>>

\* A step_leader that installs core without looking at `bootstrapped`.
StepLeaderEntryUngated(b) == "install"

\* step_leader, `if !*bootstrapped { .. }`: the first thing it does.
StepLeaderEntry(b) == IF ~b THEN "try_bootstrap" ELSE "install"

\* root_replica.on_leader().await: Ok enters step_leader, Err restarts the loop.
on_leader ==
    /\ dpc = "on_leader"
    /\ \E ok \in BOOLEAN :
         dpc' = IF ~ok THEN "fetch_root_replica" ELSE StepLeaderEntry(bootstrapped)
    /\ UNCHANGED <<core, lock, bootstrapped, bootstrap_tried, hb, step_result,
                   schema_vars, handler_vars, hub_vars>>

\* step_leader, `if !*bootstrapped { schema.try_bootstrap(..).await?; ... }`.
try_bootstrap ==
    /\ dpc = "try_bootstrap"
    /\ \E r \in {"Ok", "NotLeader", "Other"} :
         IF r = "Ok"
           THEN /\ bootstrapped' = TRUE
                /\ dpc' = "install"
                /\ UNCHANGED step_result
           ELSE /\ dpc' = "returned"
                /\ step_result' = r
                /\ UNCHANGED bootstrapped
    /\ bootstrap_tried' = TRUE
    /\ UNCHANGED <<core, lock, hb, schema_vars, handler_vars, hub_vars>>

\* step_leader, `{ let mut core = self.shared.core.lock().unwrap();
\* *core = Some(RootCore { schema }) }`.
install ==
    /\ dpc = "install"
    /\ lock = Free
    /\ lock' = LockAtAwait(DriverTask)
    /\ core' = "Some"
    /\ hb' = 0
    /\ dpc' = IF hb' < HeartbeatIters THEN "send_heartbeat" ELSE "clear"
    /\ UNCHANGED <<bootstrapped, bootstrap_tried, step_result, schema_vars, handler_vars, hub_vars>>

\* What step_leader does to core when send_heartbeat fails: `?` returns at
\* once, the block that sets core to None is not reached.
CoreAfterHeartbeatError(c) == c

\* step_leader, `self.send_heartbeat(schema.to_owned()).await?`.
send_heartbeat ==
    /\ dpc = "send_heartbeat"
    /\ \E r \in {"Ok", "NotLeader", "Other"} :
         IF r = "Ok"
           THEN /\ dpc' = "sleep"
                /\ UNCHANGED <<core, step_result>>
           ELSE /\ dpc' = "returned"
                /\ step_result' = r
                /\ core' = CoreAfterHeartbeatError(core)
    /\ UNCHANGED <<lock, bootstrapped, bootstrap_tried, hb, schema_vars, handler_vars, hub_vars>>

\* step_leader, `sleep(Duration::from_secs(1)).await` and the loop's next turn.
sleep ==
    /\ dpc = "sleep"
    /\ hb' = hb + 1
    /\ dpc' = IF hb' < HeartbeatIters THEN "send_heartbeat" ELSE "clear"
    /\ UNCHANGED <<core, lock, bootstrapped, bootstrap_tried, step_result,
                   schema_vars, handler_vars, hub_vars>>

\* step_leader, `{ let mut core = self.shared.core.lock().unwrap(); *core = None }`
\* and `Ok(())` after the loop.
clear ==
    /\ dpc = "clear"
    /\ lock = Free
    /\ lock' = LockAtAwait(DriverTask)
    /\ core' = "None"
    /\ dpc' = "returned"
    /\ step_result' = "Ok"
    /\ UNCHANGED <<bootstrapped, bootstrap_tried, hb, schema_vars, handler_vars, hub_vars>>

\* Root::run, the match on step_leader's result: Ok and NotLeader continue the
\* loop, any other error reaches todo!(), which panics the driver task.
step_leader_returned ==
    /\ dpc = "returned"
    /\ dpc' = IF step_result \in {"Ok", "NotLeader"} THEN "fetch_root_replica" ELSE "panicked"
    /\ UNCHANGED <<core, lock, bootstrapped, bootstrap_tried, hb, step_result,
                   schema_vars, handler_vars, hub_vars>>

Driver ==
    \/ fetch_root_replica
    \/ on_leader
    \/ try_bootstrap
    \/ install
    \/ send_heartbeat
    \/ sleep
    \/ clear
    \/ step_leader_returned

\* ---------------------------------------------------------------- Schema
\* Schema::get_database: the descriptor's id, 0 for None.
SchemaGetDatabase(name) ==
    IF \E d \in databases : d.name = name
      THEN (CHOOSE d \in databases : d.name = name).id
      ELSE 0

\* Schema::get_collection(database, name): the collection's id, 0 for None
\* (also when the database itself is absent).
SchemaGetCollection(database, name) ==
    LET db == SchemaGetDatabase(database) IN
    IF db # 0 /\ \E c \in collections : c.parent_id = db /\ c.name = name
      THEN (CHOOSE c \in collections : c.parent_id = db /\ c.name = name).id
      ELSE 0

\* Schema::list_all_events(cur_groups): the snapshot a new watcher starts from.
SchemaListAllEvents(cur_groups) ==
    [version |-> commits,
     dbs |-> {d.id : d \in databases},
     colls |-> {c.id : c \in collections},
     nodes |-> nodes,
     groups |-> {g \in GroupIds : group_desc[g] # 0 /\ g \notin cur_groups}]

\* The group ids in ascending order, the order list_group_state returns them in.
GroupIdSeq == [i \in 1..Cardinality(GroupIds) |-> i]

\* Schema::list_group_state: the stored replica states, by group id.
SchemaListGroupState == {g \in GroupIds : group_state[g] # 0}

\* --------------------------------------------------------------- WatchHub
\* A hub that passes over watchers whose initializer is still pending.
HubNotifySkipsPending(ws, n) ==
    [w \in DOMAIN ws |->
        IF ws[w].state = "registered" /\ ws[w].init # "pending"
          THEN [ws[w] EXCEPT !.queue = Append(@, n)]
          ELSE ws[w]]

\* WatchHub::notify_updates / notify_deletes: the batch, numbered n in
\* `published`, is queued for every registered watcher.
HubNotify(ws, n) ==
    [w \in DOMAIN ws |->
        IF ws[w].state = "registered"
          THEN [ws[w] EXCEPT !.queue = Append(@, n)]
          ELSE ws[w]]

\* Handler h publishes one batch of `events` (kind "updates" or "deletes").
Publish(h, kind, events) ==
    /\ published' = Append(published,
                           [kind |-> kind, events |-> events, muts |-> hlocal[h].muts])
    /\ watchers' = HubNotify(watchers, Len(published) + 1)

\* ------------------------------------------------------------ API handlers
\* A schema() that hands out a Schema whether or not core is installed.
schema_ignoring_core(c) == "Ok"

\* Root::schema: Some(c) => Ok(c.schema.clone()), None => Err(NotRootLeader).
schema(c) == IF c = "None" THEN "NotRootLeader" ELSE "Ok"

Finish(h, result) ==
    /\ hpc' = [hpc EXCEPT ![h] = "done"]
    /\ hresult' = [hresult EXCEPT ![h] = result]

Goto(h, pc) ==
    /\ hpc' = [hpc EXCEPT ![h] = pc]
    /\ UNCHANGED hresult

\* watch() taking the snapshot before it registers the watcher.
WatchOrderSnapshotFirst == <<"w_list_all_events", "w_create_watcher">>
\* Root::watch awaits hub.create_watcher() and then schema.list_all_events().
WatchOrder == <<"w_create_watcher", "w_list_all_events">>

\* A Root API method is called: `self.schema()?` runs at once; what follows
\* is the method's first .await.
FirstAwait(op) ==
    CASE op = "create_database" -> "cd_create_database"
      [] op = "delete_database" -> "dd_delete_database"
      [] op = "create_collection" -> "cc_get_database"
      [] op = "delete_collection" -> "dc_get_collection"
      [] op = "get_database" -> "gd_get_database"
      [] op = "get_collection" -> "gc_get_collection"
      [] op = "watch" -> WatchOrder[1]
      [] op = "join" -> "j_add_node"
      [] op = "report" -> "r_update_group_replica"

\* Root::report with no updates goes straight to list_group_state.
FirstAwaitOf(args) ==
    IF args.op = "report" /\ args.updates = <<>>
      THEN "r_list_group_state"
      ELSE FirstAwait(args.op)

Call(h, args) ==
    /\ hpc[h] = "idle"
    /\ lock = Free
    /\ lock' = LockAtAwait(HandlerTask(h))
    /\ hargs' = [hargs EXCEPT ![h] = args]
    /\ hlocal' = [hlocal EXCEPT ![h] = [NoLocal EXCEPT !.remaining = args.updates]]
    /\ IF schema(core) = "Ok"
         THEN Goto(h, FirstAwaitOf(args))
         ELSE Finish(h, schema(core))
    /\ UNCHANGED <<core, driver_vars, schema_vars, hub_vars>>

\* A Schema call fails with a store error, which `?` returns to the caller.
SchemaCallPcs ==
    {"cd_create_database", "dd_delete_database", "cc_get_database", "cc_create_collection",
     "dc_get_collection", "dc_delete_collection", "gd_get_database", "gc_get_collection",
     "j_add_node", "j_cluster_id", "j_get_root_replicas",
     "r_update_group_replica", "r_list_group_state"}

store_error(h) ==
    /\ hpc[h] \in SchemaCallPcs
    /\ Finish(h, "StoreError")
    /\ UNCHANGED <<core, lock, driver_vars, schema_vars, hub_vars, hargs, hlocal>>

\* Root::create_database, `self.schema()?.create_database(desc).await?`.
create_database(h) ==
    /\ hpc[h] = "cd_create_database"
    /\ IF SchemaGetDatabase(hargs[h].name) # 0
         THEN /\ Finish(h, "AlreadyExists")
              /\ UNCHANGED <<schema_vars, hlocal>>
         ELSE /\ databases' = databases \cup {[id |-> next_id, name |-> hargs[h].name]}
              /\ next_id' = next_id + 1
              /\ commits' = commits + 1
              /\ hlocal' = [hlocal EXCEPT ![h].id = next_id, ![h].muts = @ \cup {commits + 1}]
              /\ Goto(h, "cd_notify_updates")
              /\ UNCHANGED <<collections, nodes, group_desc, group_state>>
    /\ UNCHANGED <<core, lock, driver_vars, hub_vars, hargs>>

\* Root::create_database, `notify_updates(vec![Database(desc)]).await; Ok(desc)`.
create_database_notify(h) ==
    /\ hpc[h] = "cd_notify_updates"
    /\ Publish(h, "updates", <<[type |-> "Database", id |-> hlocal[h].id]>>)
    /\ hlocal' = [hlocal EXCEPT ![h].pubs = @ \cup {Len(published) + 1}]
    /\ Finish(h, "Ok")
    /\ UNCHANGED <<core, lock, driver_vars, schema_vars, hargs>>

\* Schema::delete_database(name) -> Result<u64> on a name that is not stored:
\* the design document leaves the outcome open, the signature allows an
\* error or an id.
DeleteAbsentDatabase == {"DatabaseNotFound", "Ok"}

\* Root::delete_database, `let id = self.schema()?.delete_database(name).await?`.
delete_database(h) ==
    /\ hpc[h] = "dd_delete_database"
    /\ LET id == SchemaGetDatabase(hargs[h].name) IN
       IF id # 0
         THEN /\ databases' = {d \in databases : d.id # id}
              /\ commits' = commits + 1
              /\ hlocal' = [hlocal EXCEPT ![h].id = id, ![h].muts = @ \cup {commits + 1}]
              /\ Goto(h, "dd_notify_deletes")
              /\ UNCHANGED <<collections, nodes, group_desc, group_state, next_id>>
         ELSE /\ \E r \in DeleteAbsentDatabase :
                   IF r = "Ok" THEN Goto(h, "dd_notify_deletes") ELSE Finish(h, r)
              /\ hlocal' = [hlocal EXCEPT ![h].absent = TRUE]
              /\ UNCHANGED schema_vars
    /\ UNCHANGED <<core, lock, driver_vars, hub_vars, hargs>>

\* Root::delete_database, `notify_deletes(vec![Database(id)]).await; Ok(())`.
delete_database_notify(h) ==
    /\ hpc[h] = "dd_notify_deletes"
    /\ Publish(h, "deletes", <<[type |-> "Database", id |-> hlocal[h].id]>>)
    /\ hlocal' = [hlocal EXCEPT ![h].pubs = @ \cup {Len(published) + 1}]
    /\ Finish(h, "Ok")
    /\ UNCHANGED <<core, lock, driver_vars, schema_vars, hargs>>

\* create_collection without the db.is_none() check.
DatabaseCheckSkipped(db) == "Ok"

\* Root::create_collection, the check of `db.is_none()`.
DatabaseCheck(db) == IF db = 0 THEN "DatabaseNotFound" ELSE "Ok"

\* Root::create_collection, `let db = schema.get_database(&database).await?;
\* if db.is_none() { return Err(DatabaseNotFound(database)) }`.
create_collection_get_database(h) ==
    /\ hpc[h] = "cc_get_database"
    /\ LET db == SchemaGetDatabase(hargs[h].database) IN
       /\ hlocal' = [hlocal EXCEPT ![h].db = db, ![h].absent = (db = 0)]
       /\ IF DatabaseCheck(db) = "Ok"
            THEN Goto(h, "cc_create_collection")
            ELSE Finish(h, DatabaseCheck(db))
    /\ UNCHANGED <<core, lock, driver_vars, schema_vars, hub_vars, hargs>>

\* Root::create_collection, `schema.create_collection(CollectionDesc {
\* name, parent_id: db.unwrap().id, .. }).await?`.
create_collection(h) ==
    /\ hpc[h] = "cc_create_collection"
    /\ IF \E c \in collections : c.parent_id = hlocal[h].db /\ c.name = hargs[h].name
         THEN /\ Finish(h, "AlreadyExists")
              /\ UNCHANGED <<schema_vars, hlocal>>
         ELSE /\ collections' = collections \cup
                    {[id |-> next_id, name |-> hargs[h].name, parent_id |-> hlocal[h].db]}
              /\ next_id' = next_id + 1
              /\ commits' = commits + 1
              /\ hlocal' = [hlocal EXCEPT ![h].id = next_id, ![h].muts = @ \cup {commits + 1}]
              /\ Goto(h, "cc_notify_updates")
              /\ UNCHANGED <<databases, nodes, group_desc, group_state>>
    /\ UNCHANGED <<core, lock, driver_vars, hub_vars, hargs>>

\* Root::create_collection, `notify_updates(vec![Collection(desc)]).await; Ok(desc)`.
create_collection_notify(h) ==
    /\ hpc[h] = "cc_notify_updates"
    /\ Publish(h, "updates", <<[type |-> "Collection", id |-> hlocal[h].id]>>)
    /\ hlocal' = [hlocal EXCEPT ![h].pubs = @ \cup {Len(published) + 1}]
    /\ Finish(h, "Ok")
    /\ UNCHANGED <<core, lock, driver_vars, schema_vars, hargs>>

\* delete_collection going on to delete and notify whatever the lookup gave.
CollectionFoundAlways(coll) == TRUE

\* Root::delete_collection, `if let Some(collection) = collection { .. }`.
CollectionFound(coll) == coll # 0

\* Root::delete_collection, `schema.get_collection(database, name).await?`.
delete_collection_get_collection(h) ==
    /\ hpc[h] = "dc_get_collection"
    /\ LET coll == SchemaGetCollection(hargs[h].database, hargs[h].name) IN
       /\ hlocal' = [hlocal EXCEPT ![h].coll = coll, ![h].absent = (coll = 0)]
       /\ IF CollectionFound(coll)
            THEN Goto(h, "dc_delete_collection")
            ELSE Finish(h, "Ok")
    /\ UNCHANGED <<core, lock, driver_vars, schema_vars, hub_vars, hargs>>

\* Root::delete_collection, `schema.delete_collection(collection).await?`.
\* Deleting a collection another task has deleted meanwhile is taken to return
\* Ok without a commit.
delete_collection(h) ==
    /\ hpc[h] = "dc_delete_collection"
    /\ collections' = {c \in collections : c.id # hlocal[h].coll}
    /\ IF collections' # collections
         THEN /\ commits' = commits + 1
              /\ hlocal' = [hlocal EXCEPT ![h].id = hlocal[h].coll, ![h].muts = @ \cup {commits + 1}]
         ELSE /\ UNCHANGED commits
              /\ hlocal' = [hlocal EXCEPT ![h].id = hlocal[h].coll]
    /\ Goto(h, "dc_notify_deletes")
    /\ UNCHANGED <<databases, nodes, group_desc, group_state, next_id>>
    /\ UNCHANGED <<core, lock, driver_vars, hub_vars, hargs>>

\* Root::delete_collection, `notify_deletes(vec![Collection(id)]).await`, `Ok(())`.
delete_collection_notify(h) ==
    /\ hpc[h] = "dc_notify_deletes"
    /\ Publish(h, "deletes", <<[type |-> "Collection", id |-> hlocal[h].id]>>)
    /\ hlocal' = [hlocal EXCEPT ![h].pubs = @ \cup {Len(published) + 1}]
    /\ Finish(h, "Ok")
    /\ UNCHANGED <<core, lock, driver_vars, schema_vars, hargs>>

\* Root::get_database, `self.schema()?.get_database(name).await`.
get_database(h) ==
    /\ hpc[h] = "gd_get_database"
    /\ hlocal' = [hlocal EXCEPT ![h].db = SchemaGetDatabase(hargs[h].name)]
    /\ Finish(h, "Ok")
    /\ UNCHANGED <<core, lock, driver_vars, schema_vars, hub_vars, hargs>>

\* Root::get_collection, `self.schema()?.get_collection(database, name).await`.
get_collection(h) ==
    /\ hpc[h] = "gc_get_collection"
    /\ hlocal' = [hlocal EXCEPT ![h].coll = SchemaGetCollection(hargs[h].database, hargs[h].name)]
    /\ Finish(h, "Ok")
    /\ UNCHANGED <<core, lock, driver_vars, schema_vars, hub_vars, hargs>>

\* Root::join, `schema.add_node(NodeDesc { addr, .. }).await?`.
join_add_node(h) ==
    /\ hpc[h] = "j_add_node"
    /\ nodes' = nodes \cup {next_id}
    /\ next_id' = next_id + 1
    /\ commits' = commits + 1
    /\ hlocal' = [hlocal EXCEPT ![h].id = next_id, ![h].muts = @ \cup {commits + 1}]
    /\ Goto(h, "j_notify_updates")
    /\ UNCHANGED <<databases, collections, group_desc, group_state>>
    /\ UNCHANGED <<core, lock, driver_vars, hub_vars, hargs>>

\* Root::join, `notify_updates(vec![Node(node)]).await`.
join_notify(h) ==
    /\ hpc[h] = "j_notify_updates"
    /\ Publish(h, "updates", <<[type |-> "Node", id |-> hlocal[h].id]>>)
    /\ hlocal' = [hlocal EXCEPT ![h].pubs = @ \cup {Len(published) + 1}]
    /\ Goto(h, "j_cluster_id")
    /\ UNCHANGED <<core, lock, driver_vars, schema_vars, hargs>>

\* Root::join, `schema.cluster_id().await?.unwrap()`.
join_cluster_id(h) ==
    /\ hpc[h] = "j_cluster_id"
    /\ Goto(h, "j_get_root_replicas")
    /\ UNCHANGED <<core, lock, driver_vars, schema_vars, hub_vars, hargs, hlocal>>

\* Root::join, `schema.get_root_replicas().await?; roots.move_first(node.id); Ok(..)`.
join_get_root_replicas(h) ==
    /\ hpc[h] = "j_get_root_replicas"
    /\ Finish(h, "Ok")
    /\ UNCHANGED <<core, lock, driver_vars, schema_vars, hub_vars, hargs, hlocal>>

\* Root::report, one turn of `for u in updates`: update_group_replica(..).await?,
\* then the Group event and the group id of a submitted replica_state are noted.
report_update_group_replica(h) ==
    /\ hpc[h] = "r_update_group_replica"
    /\ hlocal[h].remaining # <<>>
    /\ LET u == Head(hlocal[h].remaining)
           mutates == u.group_desc # 0 \/ u.replica_state # 0
           rest == Tail(hlocal[h].remaining)
       IN
       /\ group_desc' = IF u.group_desc # 0
                          THEN [group_desc EXCEPT ![u.group_id] = u.group_desc]
                          ELSE group_desc
       /\ group_state' = IF u.replica_state # 0
                           THEN [group_state EXCEPT ![u.group_id] = u.replica_state]
                           ELSE group_state
       /\ commits' = IF mutates THEN commits + 1 ELSE commits
       /\ hlocal' = [hlocal EXCEPT
              ![h].remaining = rest,
              ![h].update_events =
                  IF u.group_desc # 0
                    THEN Append(@, [type |-> "Group", id |-> u.group_id])
                    ELSE @,
              ![h].changed_group_states =
                  IF u.replica_state # 0 THEN Append(@, u.group_id) ELSE @,
              ![h].muts = IF mutates THEN @ \cup {commits + 1} ELSE @,
              ![h].state_changed =
                  IF u.replica_state # 0 /\ u.replica_state # group_state[u.group_id]
                    THEN @ \cup {u.group_id}
                    ELSE @]
       /\ Goto(h, IF rest = <<>> THEN "r_list_group_state" ELSE "r_update_group_replica")
    /\ UNCHANGED <<databases, collections, nodes, next_id>>
    /\ UNCHANGED <<core, lock, driver_vars, hub_vars, hargs>>

\* Root::report, `schema.list_group_state().await?`, `states.retain(..)` and the
\* GroupState events pushed for the states kept.
report_list_group_state(h) ==
    /\ hpc[h] = "r_list_group_state"
    /\ LET changed == {hlocal[h].changed_group_states[i] :
                           i \in DOMAIN hlocal[h].changed_group_states}
           states == SelectSeq(GroupIdSeq,
                               LAMBDA g : g \in SchemaListGroupState /\ g \in changed)
       IN hlocal' = [hlocal EXCEPT ![h].update_events =
              @ \o [i \in DOMAIN states |-> [type |-> "GroupState", id |-> states[i]]]]
    /\ Goto(h, "r_notify_updates")
    /\ UNCHANGED <<core, lock, driver_vars, schema_vars, hub_vars, hargs>>

\* Root::report, `notify_updates(update_events).await; Ok(())`.
report_notify(h) ==
    /\ hpc[h] = "r_notify_updates"
    /\ Publish(h, "updates", hlocal[h].update_events)
    /\ hlocal' = [hlocal EXCEPT ![h].pubs = @ \cup {Len(published) + 1}]
    /\ Finish(h, "Ok")
    /\ UNCHANGED <<core, lock, driver_vars, schema_vars, hargs>>

\* WatchHub::create_watcher: a registered watcher whose initializer is pending.
\* A hub that hands a new watcher every batch published so far.
NewWatcherReplaying ==
    [state |-> "registered", init |-> "pending", snapshot |-> NoSnapshot,
     queue |-> [i \in 1..Len(published) |-> i], recv |-> <<>>,
     reg_at |-> Len(published), reg_commits |-> commits, init_at |-> 0]

\* queue: the numbers of the batches waiting; recv: what the stream has been
\* handed so far; reg_at, reg_commits, init_at: how many batches were published
\* and how many mutations committed at create_watcher, and how many batches
\* were published at set_init_resp.
NewWatcher ==
    [state |-> "registered", init |-> "pending", snapshot |-> NoSnapshot,
     queue |-> <<>>, recv |-> <<>>, reg_at |-> Len(published), reg_commits |-> commits,
     init_at |-> 0]

\* WatcherInitializer::set_init_resp: the one-time initial batch.
SetInitResp(ws, w, snapshot) ==
    [ws EXCEPT ![w].init = "set", ![w].snapshot = snapshot, ![w].init_at = Len(published)]

\* The WatcherInitializer is dropped without set_init_resp: no initial batch.
DropInitializer(ws, w) == [ws EXCEPT ![w].init = "none"]

\* Dropping a Watcher deregisters it from the hub.
DropWatcher(ws, w) == [ws EXCEPT ![w].state = "dropped"]

\* What follows a step of watch(): the next await, or `set_init_resp(..);
\* Ok(watcher)` after the last one.
WatchAfter(pc) == IF pc = WatchOrder[1] THEN WatchOrder[2] ELSE "w_return"

\* Root::watch, `let (watcher, mut initializer) = hub.create_watcher().await`.
watch_create_watcher(h) ==
    /\ hpc[h] = "w_create_watcher"
    /\ LET w == Len(watchers) + 1
           ws == Append(watchers, NewWatcher)
       IN
       /\ hlocal' = [hlocal EXCEPT ![h].watcher = w]
       /\ IF WatchAfter("w_create_watcher") = "w_return"
            THEN /\ watchers' = SetInitResp(ws, w, hlocal[h].snapshot)
                 /\ Finish(h, "Ok")
            ELSE /\ watchers' = ws
                 /\ Goto(h, WatchAfter("w_create_watcher"))
    /\ UNCHANGED <<core, lock, driver_vars, schema_vars, hargs, published>>

\* Root::watch, `schema.list_all_events(cur_groups).await?` and
\* `initializer.set_init_resp(updates, deletes)`.
watch_list_all_events(h) ==
    /\ hpc[h] = "w_list_all_events"
    /\ LET snapshot == SchemaListAllEvents(hargs[h].cur_groups) IN
       /\ hlocal' = [hlocal EXCEPT ![h].snapshot = snapshot]
       /\ IF WatchAfter("w_list_all_events") = "w_return"
            THEN /\ watchers' = SetInitResp(watchers, hlocal[h].watcher, snapshot)
                 /\ Finish(h, "Ok")
            ELSE /\ UNCHANGED watchers
                 /\ Goto(h, WatchAfter("w_list_all_events"))
    /\ UNCHANGED <<core, lock, driver_vars, schema_vars, hargs, published>>

\* Root::watch, list_all_events fails: `?` returns and drops the watcher and
\* its initializer.
watch_list_all_events_error(h) ==
    /\ hpc[h] = "w_list_all_events"
    /\ watchers' = IF hlocal[h].watcher # 0
                     THEN DropWatcher(watchers, hlocal[h].watcher)
                     ELSE watchers
    /\ Finish(h, "StoreError")
    /\ UNCHANGED <<core, lock, driver_vars, schema_vars, hargs, hlocal, published>>

\* ---------------------------------------------------------------- Watcher
\* A watcher that yields queued batches without waiting for its initializer.
WatcherPollEager(wr) ==
    IF wr.queue # <<>>
      THEN [wr EXCEPT !.queue = Tail(@),
                      !.recv = Append(@, [pub |-> Head(wr.queue), snapshot |-> NoSnapshot])]
      ELSE IF wr.init = "set"
        THEN [wr EXCEPT !.init = "delivered",
                        !.recv = Append(@, [pub |-> 0, snapshot |-> wr.snapshot])]
        ELSE wr

\* Watcher::next, as polled by the stream that owns the watcher: nothing
\* before the initializer is settled, then the initial batch (pub 0 in recv),
\* then the queued batches, oldest first.
WatcherPoll(wr) ==
    CASE wr.init = "pending" -> wr
      [] wr.init = "set" ->
           [wr EXCEPT !.init = "delivered",
                      !.recv = Append(@, [pub |-> 0, snapshot |-> wr.snapshot])]
      [] OTHER ->
           IF wr.queue = <<>> THEN wr
           ELSE [wr EXCEPT !.queue = Tail(@),
                           !.recv = Append(@, [pub |-> Head(wr.queue), snapshot |-> NoSnapshot])]

watcher_next(w) ==
    /\ watchers[w].state = "registered"
    /\ WatcherPoll(watchers[w]) # watchers[w]
    /\ watchers' = [watchers EXCEPT ![w] = WatcherPoll(watchers[w])]
    /\ UNCHANGED <<core, lock, driver_vars, schema_vars, handler_vars, published>>

\* The stream is cancelled: its watcher is dropped.
watcher_drop(w) ==
    /\ watchers[w].state = "registered"
    /\ watchers[w].init # "pending"
    /\ watchers' = DropWatcher(watchers, w)
    /\ UNCHANGED <<core, lock, driver_vars, schema_vars, handler_vars, published>>

Watchers ==
    \E w \in DOMAIN watchers :
        \/ watcher_next(w)
        \/ watcher_drop(w)

\* GroupUpdates of one report(): group_desc and replica_state are 0 for None.
GroupUpdate == [group_id : GroupIds, group_desc : 0..1, replica_state : {0} \cup StateVals]

\* The arguments the RPC front-end may call the API with.
CrudArgs ==
    {[NoArgs EXCEPT !.op = op, !.name = n] :
        op \in {"create_database", "delete_database", "get_database"}, n \in DbNames}
    \cup
    {[NoArgs EXCEPT !.op = op, !.name = n, !.database = d] :
        op \in {"create_collection", "delete_collection", "get_collection"},
        n \in CoNames, d \in DbNames}

WatchArgs == {[NoArgs EXCEPT !.op = "watch", !.cur_groups = g] : g \in SUBSET GroupIds}

JoinArgs == {[NoArgs EXCEPT !.op = "join"]}

ReportArgs ==
    {[NoArgs EXCEPT !.op = "report", !.updates = u] :
        u \in UNION {[1..n -> GroupUpdate] : n \in 0..MaxUpdates}}

CallArgs == CrudArgs \cup WatchArgs \cup JoinArgs \cup ReportArgs

Crud(h) ==
    \/ create_database(h)
    \/ create_database_notify(h)
    \/ delete_database(h)
    \/ delete_database_notify(h)
    \/ create_collection_get_database(h)
    \/ create_collection(h)
    \/ create_collection_notify(h)
    \/ delete_collection_get_collection(h)
    \/ delete_collection(h)
    \/ delete_collection_notify(h)
    \/ get_database(h)
    \/ get_collection(h)

Watch(h) ==
    \/ watch_create_watcher(h)
    \/ watch_list_all_events(h)
    \/ watch_list_all_events_error(h)

Join(h) ==
    \/ join_add_node(h)
    \/ join_notify(h)
    \/ join_cluster_id(h)
    \/ join_get_root_replicas(h)

Report(h) ==
    \/ report_update_group_replica(h)
    \/ report_list_group_state(h)
    \/ report_notify(h)

\* The whole Root: the driver, the handlers of all nine API methods, the
\* streams consuming the watchers.
Next ==
    \/ Driver
    \/ \E h \in Handlers : \E args \in CallArgs : Call(h, args)
    \/ \E h \in Handlers : store_error(h) \/ Crud(h) \/ Watch(h) \/ Join(h) \/ Report(h)
    \/ Watchers

Spec == Init /\ [][Next]_vars

\* Root under a front-end that calls the database and collection methods.
NextCrud ==
    \/ Driver
    \/ \E h \in Handlers : \E args \in CrudArgs : Call(h, args)
    \/ \E h \in Handlers : store_error(h) \/ Crud(h)

SpecCrud == InitStored /\ [][NextCrud]_vars

\* Root serving one call at a time, of any of the nine methods.
NextSolo ==
    \/ Driver
    \/ \E args \in CallArgs : Call(1, args)
    \/ store_error(1) \/ Crud(1) \/ Watch(1) \/ Join(1) \/ Report(1)
    \/ Watchers

SpecSolo == InitStored /\ [][NextSolo]_vars

\* on_leader().await returns Ok: the root replica has become leader.
on_leader_ok == on_leader /\ dpc' # "fetch_root_replica"

\* Root serving one call at a time under a fair runtime: the executor keeps
\* polling the driver task it spawned (Root::bootstrap), the routing table
\* reports the root replica, and the replica does not fail to become leader
\* for ever.
SpecLive ==
    /\ InitStored
    /\ [][NextSolo]_vars
    /\ WF_vars(Driver)
    /\ SF_vars(on_leader_ok)

\* Root under a front-end that calls watch and the database methods.
WatchedArgs ==
    {a \in CrudArgs : a.op \in {"create_database", "delete_database"}}
    \cup {[NoArgs EXCEPT !.op = "watch"]}

NextWatch ==
    \/ Driver
    \/ \E h \in Handlers : \E args \in WatchedArgs : Call(h, args)
    \/ \E h \in Handlers :
         \/ store_error(h)
         \/ create_database(h)
         \/ create_database_notify(h)
         \/ delete_database(h)
         \/ delete_database_notify(h)
         \/ Watch(h)
    \/ Watchers

SpecWatch == InitWith({st \in InitialStores : st.collections = {}}) /\ [][NextWatch]_vars

\* Root under a front-end that calls watch, join and report.
NextReport ==
    \/ Driver
    \/ \E h \in Handlers : \E args \in WatchArgs \cup JoinArgs \cup ReportArgs : Call(h, args)
    \/ \E h \in Handlers : store_error(h) \/ Watch(h) \/ Join(h) \/ Report(h)
    \/ Watchers

SpecReport == Init /\ [][NextReport]_vars

\* Root under a front-end that keeps one stream open, whose task calls watch,
\* beside the handler tasks that create and delete databases.
Streamer == NumHandlers + 1

NextOrder ==
    \/ Driver
    \/ \E h \in Handlers :
         \E args \in {a \in CrudArgs : a.op \in {"create_database", "delete_database"}} :
            Call(h, args)
    \/ Call(Streamer, [NoArgs EXCEPT !.op = "watch"])
    \/ \E h \in Handlers :
         \/ store_error(h)
         \/ create_database(h)
         \/ create_database_notify(h)
         \/ delete_database(h)
         \/ delete_database_notify(h)
    \/ Watch(Streamer)
    \/ Watchers

SpecOrder == InitFor(Handlers \cup {Streamer}, {EmptyStore}) /\ [][NextOrder]_vars

\* ------------------------------------------------- root_test::watch_hub
\* The hub on its own, driven as the test drives it: watchers are created,
\* their initializers set or dropped, batches published, watchers polled.
TestSnapshot(w) == [NoSnapshot EXCEPT !.dbs = {w}]
TestEvents == <<[type |-> "Database", id |-> Len(published) + 1]>>

\* `let (w, mut initializer) = hub.create_watcher().await`.
test_create_watcher ==
    /\ Len(watchers) + Len(published) < MaxHubOps
    /\ watchers' = Append(watchers, NewWatcher)
    /\ UNCHANGED <<core, lock, driver_vars, schema_vars, handler_vars, published>>

\* `initializer.set_init_resp(vec![..], vec![])`.
test_set_init_resp(w) ==
    /\ watchers[w].init = "pending"
    /\ watchers' = SetInitResp(watchers, w, TestSnapshot(w))
    /\ UNCHANGED <<core, lock, driver_vars, schema_vars, handler_vars, published>>

\* `let (w, _) = hub.create_watcher().await`: the initializer is dropped.
test_drop_initializer(w) ==
    /\ watchers[w].init = "pending"
    /\ watchers' = DropInitializer(watchers, w)
    /\ UNCHANGED <<core, lock, driver_vars, schema_vars, handler_vars, published>>

\* `hub.notify_updates(vec![..]).await` and notify_deletes likewise.
test_notify(kind) ==
    /\ Len(watchers) + Len(published) < MaxHubOps
    /\ published' = Append(published, [kind |-> kind, events |-> TestEvents, muts |-> {}])
    /\ watchers' = HubNotify(watchers, Len(published) + 1)
    /\ UNCHANGED <<core, lock, driver_vars, schema_vars, handler_vars>>

test_notify_updates == test_notify("updates")
test_notify_deletes == test_notify("deletes")

NextHub ==
    \/ test_create_watcher
    \/ \E w \in DOMAIN watchers : test_set_init_resp(w)
    \/ \E w \in DOMAIN watchers : test_drop_initializer(w)
    \/ test_notify_updates
    \/ test_notify_deletes
    \/ Watchers

SpecHub == Init /\ [][NextHub]_vars

\* ------------------------------------------------------------ properties
Done(h) == hpc[h] = "done"
NothingDone(h) == hlocal[h].muts = {} /\ hlocal[h].pubs = {} /\ hlocal[h].watcher = 0

\* C1: whenever step_leader has returned to the loop of run, core is None.
C1_CoreAbsentOnReturn == dpc = "returned" => core = "None"

\* C2: a Root API call that finds core absent when it fetches the Schema ends
\* at once with NotRootLeader: the step changes neither the stored metadata
\* nor the hub (no read step is taken, no mutation, no watcher, no batch),
\* and a finished call takes no further step.
C2_AbsentCoreFailsFast ==
    [][\A h \in Handlers :
         /\ (hpc[h] = "idle" /\ hpc'[h] # "idle" /\ core = "None") =>
               /\ hpc'[h] = "done"
               /\ hresult'[h] = "NotRootLeader"
               /\ NothingDone(h)'
               /\ UNCHANGED <<schema_vars, hub_vars>>
         /\ Done(h) => UNCHANGED <<hpc[h], hresult[h], hlocal[h]>>]_vars

C2_Witness ==
    \E h \in Handlers :
        /\ Done(h)
        /\ hargs[h].op = "watch"
        /\ hresult[h] = "NotRootLeader"
        /\ bootstrapped /\ core = "None"

\* C3: a create_collection whose get_database finds the named database
\* absent fails with DatabaseNotFound, having committed no mutation and
\* published no batch; no collection is ever stored without a parent.
C3_MissingDatabaseRejected ==
    /\ \A h \in Handlers :
         (hargs[h].op = "create_collection" /\ hlocal[h].absent) =>
            /\ Done(h)
            /\ hresult[h] = "DatabaseNotFound"
            /\ NothingDone(h)
    /\ \A c \in collections : c.parent_id # 0

C3_Witness ==
    \E h \in Handlers :
        /\ hargs[h].op = "create_collection"
        /\ hlocal[h].absent
        /\ hresult[h] = "DatabaseNotFound"
        /\ core = "Some"

\* C4: a delete_database that finds no database of that name returns Ok and
\* publishes no batch.
C4_DeleteAbsentDatabaseNoOp ==
    \A h \in Handlers :
        (hargs[h].op = "delete_database" /\ hlocal[h].absent /\ Done(h)) =>
            hresult[h] = "Ok" /\ hlocal[h].pubs = {}

Got(w) ==
    LET r == SelectSeq(watchers[w].recv, LAMBDA b : b.pub # 0)
    IN [i \in DOMAIN r |-> r[i].pub] \o watchers[w].queue
GotSet(w) == {Got(w)[i] : i \in DOMAIN Got(w)}
Interval(a, b) == [i \in 1..(b - a + 1) |-> a + i - 1]
Registered(w) == watchers[w].state = "registered"
Drained(w) == Registered(w) /\ watchers[w].init \in {"none", "delivered"} /\ watchers[w].queue = <<>>

\* C6: what a watcher has received and has waiting is, in publication order
\* and each once, every batch published since its create_watcher (up to its
\* drop, for a dropped watcher).
C6_EveryBatchOnceInOrder ==
    \A w \in DOMAIN watchers :
        LET all == Interval(watchers[w].reg_at + 1, Len(published)) IN
        IF Registered(w)
          THEN Got(w) = all
          ELSE Len(Got(w)) <= Len(all) /\ Got(w) = SubSeq(all, 1, Len(Got(w)))

C6_Witness ==
    \E w1, w2 \in DOMAIN watchers :
        /\ w1 # w2 /\ Registered(w1) /\ Registered(w2)
        /\ Len(published) = 2
        /\ watchers[w1].reg_at = 0 /\ watchers[w2].reg_at = 0
        /\ Drained(w1)
        /\ Len(watchers[w2].queue) = 2

\* C7: a watcher is handed no batch published before its create_watcher and
\* no initial batch but its own; w1 created, A published, w2 created, B
\* published: w1 is handed A then B, w2 is handed B only.
C7_NothingBeforeRegistration ==
    /\ \A w \in DOMAIN watchers :
         \A i \in DOMAIN watchers[w].recv :
            LET b == watchers[w].recv[i] IN
            IF b.pub = 0
              THEN b.snapshot = TestSnapshot(w)
              ELSE b.pub > watchers[w].reg_at
    /\ (/\ Len(watchers) >= 2 /\ Len(published) = 2
        /\ watchers[1].reg_at = 0 /\ watchers[2].reg_at = 1
        /\ Drained(1) /\ Drained(2))
       => (Got(1) = <<1, 2>> /\ Got(2) = <<2>>)

C7_Witness ==
    /\ Len(watchers) >= 2 /\ Len(published) = 2
    /\ watchers[1].reg_at = 0 /\ watchers[2].reg_at = 1
    /\ Drained(1) /\ Drained(2)
    /\ watchers[1].init = "delivered"

\* C8: a watcher whose initializer was given set_init_resp is handed that
\* initial batch first and once, before every published batch.
C8_InitialBatchFirst ==
    \A w \in DOMAIN watchers :
        LET wr == watchers[w] IN
        /\ wr.init = "set" => wr.recv = <<>>
        /\ wr.init = "delivered" =>
              /\ wr.recv # <<>>
              /\ wr.recv[1] = [pub |-> 0, snapshot |-> wr.snapshot]
              /\ \A i \in 2..Len(wr.recv) : wr.recv[i].pub # 0
        /\ wr.init \in {"pending", "none"} => \A i \in DOMAIN wr.recv : wr.recv[i].pub # 0

C8_Witness ==
    \E w \in DOMAIN watchers :
        /\ watchers[w].init = "delivered"
        /\ Len(watchers[w].recv) >= 2
        /\ watchers[w].recv[2].pub > watchers[w].reg_at
        /\ watchers[w].recv[2].pub <= watchers[w].init_at

\* C9: for a watcher returned by watch(), every mutation whose batch was
\* published is in the snapshot (committed before it was taken) or its batch
\* is among those the watcher has been handed or has waiting.
C9_NoMutationMissed ==
    \A w \in DOMAIN watchers :
        (Registered(w) /\ watchers[w].init \in {"set", "delivered"}) =>
            \A n \in DOMAIN published : \A m \in published[n].muts :
                m <= watchers[w].snapshot.version \/ n \in GotSet(w)

C9_Witness ==
    \E w \in DOMAIN watchers : \E n \in DOMAIN published : \E m \in published[n].muts :
        /\ Registered(w) /\ watchers[w].init \in {"set", "delivered"}
        /\ m > watchers[w].reg_commits
        /\ m <= watchers[w].snapshot.version
        /\ n > watchers[w].init_at
        /\ n \in GotSet(w)

\* C10: once a call has returned, each mutation it committed is in exactly
\* one published batch, and that batch reached every watcher registered
\* before the commit.
C10_EveryCommitPublishedOnce ==
    \A h \in Handlers : Done(h) =>
        \A m \in hlocal[h].muts :
            /\ Cardinality({n \in DOMAIN published : m \in published[n].muts}) = 1
            /\ \A w \in DOMAIN watchers :
                 (Registered(w) /\ watchers[w].reg_commits < m) =>
                     \E n \in GotSet(w) : m \in published[n].muts

\* The group ids of the GroupState events in batch n.
GroupStateIds(n) ==
    {published[n].events[i].id :
        i \in {j \in DOMAIN published[n].events : published[n].events[j].type = "GroupState"}}

\* C11: a report() that returns Ok has published GroupState events for
\* exactly the group ids whose stored replica_state the call changed: none for
\* an update that carried only a group_desc, none for a submitted state equal
\* to the stored one, one for every state that did change.
C11_GroupStateOnlyIfChanged ==
    \A h \in Handlers :
        (Done(h) /\ hargs[h].op = "report" /\ hresult[h] = "Ok") =>
            \A n \in hlocal[h].pubs : GroupStateIds(n) = hlocal[h].state_changed

\* The steps at which create_database and create_collection await the Schema
\* call that commits.
CreatePcs == {"cd_create_database", "cc_create_collection"}

\* C12: a create_database or create_collection that fetched the Schema while
\* core was installed and whose Schema mutation is still to come when core
\* has been cleared ends, at that step, with an error: it commits no mutation
\* and goes on to publish nothing.  (Any error result is accepted here, the
\* store's own included.)
C12_ClearedCoreStopsMutation ==
    [][\A h \in Handlers :
         (core = "None" /\ hpc[h] \in CreatePcs /\ hpc'[h] # hpc[h]) =>
            /\ hpc'[h] = "done"
            /\ hresult'[h] # "Ok"
            /\ UNCHANGED <<schema_vars, hub_vars>>]_vars

\* C13: the batches a watcher has been handed or has waiting are in the
\* commit order of their mutations: no mutation of a later batch was
\* committed before a mutation of an earlier one.
C13_EventsInCommitOrder ==
    \A w \in DOMAIN watchers :
        \A i, j \in DOMAIN Got(w) :
            i < j => \A m1 \in published[Got(w)[i]].muts :
                        \A m2 \in published[Got(w)[j]].muts : m1 < m2

\* C14: whatever step_leader returned, the driver goes back to waiting for
\* the root replica: the driver task never ends up crashed.
C14_DriverSurvivesErrors == dpc # "panicked"

\* C15: core goes from installed to absent only when step_leader ends with an
\* error; after successful heartbeats alone the driver does not clear it.
C15_CoreKeptWhileHeartbeatsSucceed ==
    [][(core = "Some" /\ core' = "None") => step_result' \in {"NotLeader", "Other"}]_vars

\* C16: try_bootstrap is invoked at most once by the driver task: whenever
\* the driver takes the try_bootstrap step, it has not taken it before.
C16_TryBootstrapAtMostOnce ==
    [][(dpc = "try_bootstrap" /\ dpc' # dpc) => ~bootstrap_tried]_vars

\* The .await points of the driver (fetch_root_replica, on_leader,
\* try_bootstrap, send_heartbeat, sleep) and of the API methods (the Schema
\* calls, the hub's notifications, create_watcher).
DriverAwaitPcs == {"fetch_root_replica", "on_leader", "try_bootstrap", "send_heartbeat", "sleep"}
NotifyPcs ==
    {"cd_notify_updates", "dd_notify_deletes", "cc_notify_updates", "dc_notify_deletes",
     "j_notify_updates", "r_notify_updates"}
HandlerAwaitPcs == SchemaCallPcs \cup NotifyPcs \cup {"w_create_watcher", "w_list_all_events"}

\* C17: a task suspended at an .await does not hold the mutex over core, and
\* a call that is about to run schema() finds the mutex free.
C17_NoLockAcrossAwait ==
    /\ dpc \in DriverAwaitPcs => lock # DriverTask
    /\ \A h \in Handlers : hpc[h] \in HandlerAwaitPcs => lock # HandlerTask(h)
    /\ \A h \in Handlers : hpc[h] = "idle" => lock = Free

C17_Witness ==
    /\ dpc = "send_heartbeat" /\ core = "Some"
    /\ \E h1, h2 \in Handlers :
         /\ hpc[h1] \in SchemaCallPcs
         /\ hpc[h2] \in NotifyPcs
    /\ lock = Free

\* C18: no step leaves a collection with a dangling parent behind: a
\* collection is stored only under a database that exists when the
\* collection is committed, a delete_database committed after
\* create_collection's get_database notwithstanding.
C18_NoDanglingParent ==
    [][\A c \in collections' \ collections :
          \E d \in databases' : d.id = c.parent_id]_vars

\* C19: a call that has returned an error has handed no batch to the hub.
C19_ErrorPublishedNothing ==
    \A h \in Handlers :
        (Done(h) /\ hresult[h] # "Ok") => hlocal[h].pubs = {}

\* C20: if try_bootstrap never fails, core is eventually installed; core is
\* installed only by the install step of a term, which is entered only after
\* on_leader returned Ok in that term, and only once try_bootstrap has
\* succeeded in this process.
C20_EventuallyInstalled ==
    /\ ([](dpc = "returned" => bootstrapped)) => <>(core = "Some")
    /\ [](core = "Some" => bootstrapped)
    /\ [][(core = "None" /\ core' = "Some") => (dpc = "install" /\ bootstrapped)]_vars
    /\ [][(dpc' \in {"try_bootstrap", "install"} /\ dpc' # dpc) =>
            dpc \in {"on_leader", "try_bootstrap"}]_vars

C20_Witness ==
    /\ core = "Some" /\ bootstrapped
    /\ dpc = "send_heartbeat"
    /\ hpc[1] = "done" /\ hresult[1] = "Ok"
====
